---- MODULE Spec2Model ----
(***************************************************************************)
(* Model of app/src/main/cpp/main.cpp: the native-activity event pump      *)
(* (android_main) and its two handlers (handleAppCommand,                  *)
(* handleInputEvent).                                                      *)
(*                                                                         *)
(* The pump is one thread; `pc` is its position in android_main.  The OS   *)
(* side (the looper's queue, the poll source's processing routine, the     *)
(* owner of app->destroyRequested) is outside main.cpp and is modelled as  *)
(* the environment: it queues events, and it may raise the destroy flag,   *)
(* either while a command source is processed or on its own.               *)
(***************************************************************************)
EXTENDS Naturals, Integers, Sequences, FiniteSets, TLC

\* Bound on the number of events the OS queues in one execution.
MaxEvents == 3

----------------------------------------------------------------------------
\* Values

\* Lifecycle commands: the two main.cpp names, one it does not name, and the
\* command with which the OS announces destruction.
APP_CMD_INIT_WINDOW == "APP_CMD_INIT_WINDOW"
APP_CMD_TERM_WINDOW == "APP_CMD_TERM_WINDOW"
APP_CMD_GAINED_FOCUS == "APP_CMD_GAINED_FOCUS"
APP_CMD_DESTROY == "APP_CMD_DESTROY"
Commands ==
  {APP_CMD_INIT_WINDOW, APP_CMD_TERM_WINDOW, APP_CMD_GAINED_FOCUS, APP_CMD_DESTROY}

\* Input event types.
AINPUT_EVENT_TYPE_KEY == "AINPUT_EVENT_TYPE_KEY"
AINPUT_EVENT_TYPE_MOTION == "AINPUT_EVENT_TYPE_MOTION"
InputTypes == {AINPUT_EVENT_TYPE_KEY, AINPUT_EVENT_TYPE_MOTION}

\* Log severities and the records main.cpp emits (tag kLogTag is fixed).
ANDROID_LOG_INFO == "ANDROID_LOG_INFO"
ANDROID_LOG_VERBOSE == "ANDROID_LOG_VERBOSE"
LogRecord(prio, msg) == [prio |-> prio, msg |-> msg]
RecWindowInitialized == LogRecord(ANDROID_LOG_INFO, "Window initialized")
RecWindowTerminated == LogRecord(ANDROID_LOG_INFO, "Window terminated")
RecMotion == LogRecord(ANDROID_LOG_VERBOSE, "Motion input event")
RecStarted == LogRecord(ANDROID_LOG_INFO, "Native loop started")
RecExiting == LogRecord(ANDROID_LOG_INFO, "Destroy requested, exiting")

\* What a poll with status >= 0 hands back through `source`: the command
\* source, the input source, or nullptr (an identifier without a source).
CmdEvent(c) == [src |-> "cmd", val |-> c]
InputEvent(t) == [src |-> "input", val |-> t]
NullEvent == [src |-> "nullptr", val |-> "none"]
Events ==
  {CmdEvent(c) : c \in Commands} \cup {InputEvent(t) : t \in InputTypes} \cup {NullEvent}
NoEvent == [src |-> "unset", val |-> "none"]
\* Variant of ValidSource: the null test is missing.
ValidSourceAlways(e) == TRUE
ValidSource(e) == e.src # "nullptr"

\* Negative results of ALooper_pollOnce: wake, callback, timeout, error.
NegativeStatuses == {-1, -2, -3, -4}
\* The identifier a poll returns for an event (main, input, user).
Ident(e) == IF e.src = "cmd" THEN 1 ELSE IF e.src = "input" THEN 2 ELSE 3

\* A value that may be absent (a temporary not yet produced).
None == << >>
Some(x) == <<x>>

\* Callback slot values.
NullHandler == "NULL"
HandleAppCommandFn == "handleAppCommand"
HandleInputEventFn == "handleInputEvent"

----------------------------------------------------------------------------
\* State

VARIABLES
  pc,               \* position of the pump in android_main
  onAppCmd,         \* app->onAppCmd
  onInputEvent,     \* app->onInputEvent
  destroyRequested, \* app->destroyRequested
  log,              \* records written to the diagnostic sink, in order
  queue,            \* events pending in the looper
  status,           \* last value returned by ALooper_pollOnce
  source,           \* local `source` of android_main
  arg,              \* argument of the handler being run
  inputRet,         \* last value returned by handleInputEvent
  polled,           \* history: events returned by polls with status >= 0
  processed,        \* history: events whose process routine was invoked
  delivered         \* history: number of events queued by the OS

vars ==
  <<pc, onAppCmd, onInputEvent, destroyRequested, log, queue, status, source,
    arg, inputRet, polled, processed, delivered>>

Init ==
  /\ pc = "regAppCmd"
  /\ onAppCmd = NullHandler
  /\ onInputEvent = NullHandler
  /\ destroyRequested = 0
  /\ log = << >>
  /\ queue = << >>
  /\ status = None
  /\ source = NoEvent
  /\ arg = "none"
  /\ inputRet = None
  /\ polled = << >>
  /\ processed = << >>
  /\ delivered = 0

----------------------------------------------------------------------------
\* The handlers

\* Variant of AppCommandRecords: the default label also emits a record.
AppCommandRecordsDefaultLogs(cmd) ==
  CASE cmd = APP_CMD_INIT_WINDOW -> <<RecWindowInitialized>>
    [] cmd = APP_CMD_TERM_WINDOW -> <<RecWindowTerminated>>
    [] OTHER -> <<RecWindowTerminated>>

\* Variant of AppCommandRecords: the first case lacks its `break` and falls
\* through into the second.
AppCommandRecordsFallThrough(cmd) ==
  CASE cmd = APP_CMD_INIT_WINDOW -> <<RecWindowInitialized, RecWindowTerminated>>
    [] cmd = APP_CMD_TERM_WINDOW -> <<RecWindowTerminated>>
    [] OTHER -> << >>

\* handleAppCommand: the records the switch on cmd emits.
AppCommandRecords(cmd) ==
  CASE cmd = APP_CMD_INIT_WINDOW -> <<RecWindowInitialized>>
    [] cmd = APP_CMD_TERM_WINDOW -> <<RecWindowTerminated>>
    [] OTHER -> << >>

\* Variant of InputEventRecords: the type is compared with the key type.
InputEventRecordsKey(t) ==
  IF t = AINPUT_EVENT_TYPE_KEY THEN <<RecMotion>> ELSE << >>

\* handleInputEvent: the records emitted for an event of type t.
InputEventRecords(t) ==
  IF t = AINPUT_EVENT_TYPE_MOTION THEN <<RecMotion>> ELSE << >>

\* Variant of InputEventReturn: a motion event is reported as consumed.
InputEventReturnConsumed(t) == IF t = AINPUT_EVENT_TYPE_MOTION THEN 1 ELSE 0

\* handleInputEvent: the value returned.
InputEventReturn(t) == 0

\* handleAppCommand(app, cmd), called through app->onAppCmd.
HandleAppCommand ==
  /\ pc = "appCmd"
  /\ log' = log \o AppCommandRecords(arg)
  /\ arg' = "none"
  /\ pc' = "check"
  /\ UNCHANGED <<onAppCmd, onInputEvent, destroyRequested, queue, status, source,
                 inputRet, polled, processed, delivered>>

\* handleInputEvent(app, event), called through app->onInputEvent.
HandleInputEvent ==
  /\ pc = "inputEvent"
  /\ log' = log \o InputEventRecords(arg)
  /\ inputRet' = Some(InputEventReturn(arg))
  /\ arg' = "none"
  /\ pc' = "check"
  /\ UNCHANGED <<onAppCmd, onInputEvent, destroyRequested, queue, status, source,
                 polled, processed, delivered>>

----------------------------------------------------------------------------
\* android_main

\* app->onAppCmd = handleAppCommand;
RegisterAppCmd ==
  /\ pc = "regAppCmd"
  /\ onAppCmd' = HandleAppCommandFn
  /\ pc' = "regInput"
  /\ UNCHANGED <<onInputEvent, destroyRequested, log, queue, status, source, arg,
                 inputRet, polled, processed, delivered>>

\* Variant of RegisterInputEvent: the assignment goes to the other slot.
RegisterInputEventWrongSlot ==
  /\ pc = "regInput"
  /\ onAppCmd' = HandleInputEventFn
  /\ pc' = "logStart"
  /\ UNCHANGED <<onInputEvent, destroyRequested, log, queue, status, source, arg,
                 inputRet, polled, processed, delivered>>

\* app->onInputEvent = handleInputEvent;
RegisterInputEvent ==
  /\ pc = "regInput"
  /\ onInputEvent' = HandleInputEventFn
  /\ pc' = "logStart"
  /\ UNCHANGED <<onAppCmd, destroyRequested, log, queue, status, source, arg,
                 inputRet, polled, processed, delivered>>

\* __android_log_print(ANDROID_LOG_INFO, kLogTag, "Native loop started");
LogStarted ==
  /\ pc = "logStart"
  /\ log' = Append(log, RecStarted)
  /\ pc' = "poll"
  /\ UNCHANGED <<onAppCmd, onInputEvent, destroyRequested, queue, status, source,
                 arg, inputRet, polled, processed, delivered>>

\* Variant of AfterPoll: only the error status ends the inner loop.
AfterPollErrorOnly(s) == IF s # -4 THEN "source" ELSE "tick"

\* Where the inner while goes on a poll result s: into its body when
\* s >= 0, to the end of the outer loop's body otherwise.
AfterPoll(s) == IF s >= 0 THEN "source" ELSE "tick"

\* ALooper_pollOnce(0, ...) reports nothing to drain: a negative status.
PollNegative ==
  /\ pc = "poll"
  /\ \E s \in NegativeStatuses :
       /\ status' = Some(s)
       /\ pc' = AfterPoll(s)
  /\ UNCHANGED <<onAppCmd, onInputEvent, destroyRequested, log, queue, source, arg,
                 inputRet, polled, processed, delivered>>

\* ALooper_pollOnce(0, ...) drains the next queued event: its identifier
\* is the status, its source comes back through `source`.
PollEvent ==
  /\ pc = "poll"
  /\ queue # << >>
  /\ status' = Some(Ident(Head(queue)))
  /\ pc' = AfterPoll(Ident(Head(queue)))
  /\ source' = Head(queue)
  /\ queue' = Tail(queue)
  /\ polled' = Append(polled, Head(queue))
  /\ UNCHANGED <<onAppCmd, onInputEvent, destroyRequested, log, arg, inputRet,
                 processed, delivered>>

\* source->process(app, source) of the command source: the OS side notes a
\* destroy command in app->destroyRequested, then calls app->onAppCmd if set.
\* source->process of the input source calls app->onInputEvent if set.
ProcessTarget(e) ==
  IF e.src = "cmd" /\ onAppCmd = HandleAppCommandFn THEN "appCmd"
  ELSE IF e.src = "input" /\ onInputEvent = HandleInputEventFn THEN "inputEvent"
  ELSE "check"

ProcessDestroy(e) ==
  IF e.src = "cmd" /\ e.val = APP_CMD_DESTROY THEN 1 ELSE destroyRequested

\* Variant of ProcessSource: only the command source is processed.
ProcessSourceCmdOnly ==
  /\ pc = "source"
  /\ status' = None
  /\ IF ValidSource(source) /\ source.src = "cmd"
       THEN /\ processed' = Append(processed, source)
            /\ destroyRequested' = ProcessDestroy(source)
            /\ pc' = ProcessTarget(source)
            /\ arg' = IF ProcessTarget(source) = "check" THEN "none" ELSE source.val
       ELSE /\ pc' = "check"
            /\ UNCHANGED <<processed, destroyRequested, arg>>
  /\ UNCHANGED <<onAppCmd, onInputEvent, log, queue, source, inputRet, polled,
                 delivered>>

\* if (source != nullptr) { source->process(app, source); }
ProcessSource ==
  /\ pc = "source"
  /\ status' = None
  /\ IF ValidSource(source)
       THEN /\ processed' = Append(processed, source)
            /\ destroyRequested' = ProcessDestroy(source)
            /\ pc' = ProcessTarget(source)
            /\ arg' = IF ProcessTarget(source) = "check" THEN "none" ELSE source.val
       ELSE /\ pc' = "check"
            /\ UNCHANGED <<processed, destroyRequested, arg>>
  /\ UNCHANGED <<onAppCmd, onInputEvent, log, queue, source, inputRet, polled,
                 delivered>>

\* Variant of DestroyObserved: the test inverted.
DestroyObservedInverted == destroyRequested = 0

\* The test of line 43.
DestroyObserved == destroyRequested # 0

\* Variant of CheckDestroy: `break` in place of `return`, which leaves only
\* the inner loop.
CheckDestroyBreak ==
  /\ pc = "check"
  /\ IF DestroyObserved
       THEN /\ log' = Append(log, RecExiting)
            /\ pc' = "tick"
       ELSE /\ pc' = "poll"
            /\ UNCHANGED log
  /\ UNCHANGED <<onAppCmd, onInputEvent, destroyRequested, queue, status, source,
                 arg, inputRet, polled, processed, delivered>>

\* Variant of CheckDestroy: the inner loop is an `if`, so one event is
\* drained per outer iteration.
CheckDestroyOneEvent ==
  /\ pc = "check"
  /\ IF DestroyObserved
       THEN /\ log' = Append(log, RecExiting)
            /\ pc' = "done"
       ELSE /\ pc' = "tick"
            /\ UNCHANGED log
  /\ UNCHANGED <<onAppCmd, onInputEvent, destroyRequested, queue, status, source,
                 arg, inputRet, polled, processed, delivered>>

\* if (app->destroyRequested != 0) { log "Destroy requested, exiting"; return; }
CheckDestroy ==
  /\ pc = "check"
  /\ IF DestroyObserved
       THEN /\ log' = Append(log, RecExiting)
            /\ pc' = "done"
       ELSE /\ pc' = "poll"
            /\ UNCHANGED log
  /\ UNCHANGED <<onAppCmd, onInputEvent, destroyRequested, queue, status, source,
                 arg, inputRet, polled, processed, delivered>>

\* Variant of OuterContinue: the start record is logged inside the outer
\* loop.
OuterContinueLogs ==
  /\ pc = "tick"
  /\ status' = None
  /\ log' = Append(log, RecStarted)
  /\ pc' = "poll"
  /\ UNCHANGED <<onAppCmd, onInputEvent, destroyRequested, queue, source, arg,
                 inputRet, polled, processed, delivered>>

\* The end of the outer loop's body ("Runtime/render loop will be extended
\* from here"): nothing is done, the inner loop starts over.
OuterContinue ==
  /\ pc = "tick"
  /\ status' = None
  /\ pc' = "poll"
  /\ UNCHANGED <<onAppCmd, onInputEvent, destroyRequested, log, queue, source, arg,
                 inputRet, polled, processed, delivered>>

----------------------------------------------------------------------------
\* The OS side

\* The OS queues an event on the looper.
OsDeliver ==
  /\ delivered < MaxEvents
  /\ \E e \in Events : queue' = Append(queue, e)
  /\ delivered' = delivered + 1
  /\ UNCHANGED <<pc, onAppCmd, onInputEvent, destroyRequested, log, status, source,
                 arg, inputRet, polled, processed>>

\* The OS raises app->destroyRequested on its own; it never lowers it.
OsRequestDestroy ==
  /\ destroyRequested = 0
  /\ destroyRequested' = 1
  /\ UNCHANGED <<pc, onAppCmd, onInputEvent, log, queue, status, source, arg,
                 inputRet, polled, processed, delivered>>

----------------------------------------------------------------------------
\* Specifications

Pump ==
  \/ RegisterAppCmd
  \/ RegisterInputEvent
  \/ LogStarted
  \/ PollNegative
  \/ PollEvent
  \/ ProcessSource
  \/ HandleAppCommand
  \/ HandleInputEvent
  \/ CheckDestroy
  \/ OuterContinue

Next ==
  \/ RegisterAppCmd
  \/ RegisterInputEvent
  \/ LogStarted
  \/ PollNegative
  \/ PollEvent
  \/ ProcessSource
  \/ HandleAppCommand
  \/ HandleInputEvent
  \/ CheckDestroy
  \/ OuterContinue
  \/ OsDeliver
  \/ OsRequestDestroy

Spec == Init /\ [][Next]_vars

\* The pump's thread keeps running: whenever it can take a step it does.
FairSpec == Spec /\ WF_vars(Pump)

----------------------------------------------------------------------------
\* Properties

\* A step of the pump (each of its steps moves pc; the OS side never does).
PumpStep == pc' # pc
\* A call of ALooper_pollOnce.
PollStep == pc = "poll" /\ pc' # "poll"
\* The pump has drained an event and not yet finished the check after it.
InDrainedEvent == pc \in {"source", "appCmd", "inputEvent", "check"}
\* The number of records r in the log.
Count(r) == Cardinality({i \in 1..Len(log) : log[i] = r})
\* The severities of the records of the log, in order.
Severities == [i \in 1..Len(log) |-> log[i].prio]

\* C1: once the check after a drained event finds destroyRequested non-zero,
\* the pump's next step appends the one record "Destroy requested, exiting"
\* and returns; from then on nothing is polled, processed or logged, and the
\* log holds that record exactly once, as its last record.
C1_ExitOnObservedDestroy ==
  /\ [][(pc = "check" /\ destroyRequested # 0 /\ PumpStep)
          => (pc' = "done" /\ log' = Append(log, RecExiting))]_vars
  /\ [][pc = "done"
          => (pc' = "done" /\ ~PollStep /\ UNCHANGED <<log, polled, processed, status>>)]_vars
  /\ [](pc = "done" => (Count(RecExiting) = 1 /\ log[Len(log)] = RecExiting))

\* C1 witness: the pump has returned after its second drained event while
\* another event is still queued.
C1_Witness ==
  /\ pc = "done"
  /\ Len(polled) = 2
  /\ queue # << >>
  /\ log[Len(log)] = RecExiting

\* The scenario of C2: window-available, motion input, destroy-requested.
Scenario ==
  <<CmdEvent(APP_CMD_INIT_WINDOW), InputEvent(AINPUT_EVENT_TYPE_MOTION),
    CmdEvent(APP_CMD_DESTROY)>>

\* C2 as stated: after the pump has drained exactly the scenario and
\* returned, the log is three records: informational, verbose, informational.
C2_ThreeRecords ==
  (pc = "done" /\ polled = Scenario)
    => Severities = <<ANDROID_LOG_INFO, ANDROID_LOG_VERBOSE, ANDROID_LOG_INFO>>

\* C2 amended: after the pump has drained exactly the scenario and returned,
\* the log is four records: "Native loop started" (informational), "Window
\* initialized" (informational), "Motion input event" (verbose), "Destroy
\* requested, exiting" (informational); all three events were processed.
C2_FourRecords ==
  (pc = "done" /\ polled = Scenario)
    => /\ log = <<RecStarted, RecWindowInitialized, RecMotion, RecExiting>>
       /\ Severities = <<ANDROID_LOG_INFO, ANDROID_LOG_INFO, ANDROID_LOG_VERBOSE,
                         ANDROID_LOG_INFO>>
       /\ processed = Scenario

\* C2 witness: the pump has returned having drained exactly the scenario.
C2_Witness == pc = "done" /\ polled = Scenario /\ queue = << >>

\* C3 as stated: no call of ALooper_pollOnce is made in a state in which
\* destroyRequested is non-zero.
C3_NoPollWhileDestroyRequested ==
  [][~(destroyRequested # 0 /\ PollStep)]_vars

\* C3 amended: destroyRequested is never lowered, and once an event has been
\* drained while it is non-zero the pump makes no further poll: from that
\* event's processing it goes to the check and returns.  (A flag raised
\* while nothing is drained does not stop the polling.)
C3_NoPollAfterDrainedEvent ==
  /\ [][destroyRequested # 0 => destroyRequested' # 0]_vars
  /\ [][(destroyRequested # 0 /\ InDrainedEvent)
          => (~PollStep /\ (InDrainedEvent' \/ pc' = "done"))]_vars

\* C3 witness: the flag was raised by the OS on its own (no destroy command
\* was drained); the pump drained a key event with the flag raised and
\* returned, leaving an event queued.
C3_Witness ==
  /\ pc = "done"
  /\ destroyRequested # 0
  /\ Len(polled) = 1
  /\ polled[1] = InputEvent(AINPUT_EVENT_TYPE_KEY)
  /\ queue # << >>

\* C4 as stated: whenever destroyRequested is non-zero the pump eventually
\* returns.
C4_DestroyLeadsToReturn == (destroyRequested # 0) ~> (pc = "done")

\* C4 amended: whenever destroyRequested is non-zero and an event has been
\* drained (a poll returned a status >= 0), the pump eventually returns.
C4_DrainedDestroyLeadsToReturn ==
  (destroyRequested # 0 /\ InDrainedEvent) ~> (pc = "done")

\* C4 witness: the pump has returned after the OS raised the flag with no
\* destroy command among the drained events.
C4_Witness ==
  /\ pc = "done"
  /\ \A i \in 1..Len(polled) : polled[i] # CmdEvent(APP_CMD_DESTROY)
  /\ Len(polled) = 3

\* The commands handleAppCommand has a case for.
Recognized == {APP_CMD_INIT_WINDOW, APP_CMD_TERM_WINDOW}
\* The log grew by exactly n records.
Emitted(n) == Len(log') = Len(log) + n /\ SubSeq(log', 1, Len(log)) = log

\* C5: for window-available and window-unavailable, handleAppCommand emits
\* exactly one record, of informational severity, and changes neither
\* callback slot nor destroyRequested; the pump goes on to its check.
C5_RecognizedCommand ==
  [][(pc = "appCmd" /\ arg \in Recognized /\ PumpStep)
       => /\ Emitted(1)
          /\ log'[Len(log')].prio = ANDROID_LOG_INFO
          /\ pc' = "check"
          /\ UNCHANGED <<onAppCmd, onInputEvent, destroyRequested, queue, inputRet,
                         polled, processed>>]_vars

\* C5 witness: handleAppCommand has just handled window-unavailable.
C5_Witness ==
  /\ pc = "check"
  /\ source = CmdEvent(APP_CMD_TERM_WINDOW)
  /\ onAppCmd = HandleAppCommandFn
  /\ log[Len(log)] = RecWindowTerminated

\* C6: for every other command, handleAppCommand emits nothing and returns
\* to the pump, which goes on to its check; a handler call is always able to
\* complete, whatever the command.
C6_UnrecognizedCommand ==
  /\ [][(pc = "appCmd" /\ arg \notin Recognized /\ PumpStep)
          => /\ log' = log
             /\ pc' = "check"
             /\ UNCHANGED <<onAppCmd, onInputEvent, destroyRequested>>]_vars
  /\ [](pc = "appCmd" => (arg \in Commands /\ ENABLED HandleAppCommand))

\* C6 witness: handleAppCommand has just handled a focus command, with
\* nothing logged since the start record.
C6_Witness ==
  /\ pc = "check"
  /\ source = CmdEvent(APP_CMD_GAINED_FOCUS)
  /\ onAppCmd = HandleAppCommandFn
  /\ log = <<RecStarted>>
  /\ Len(processed) = 1

\* C7: handleInputEvent returns 0 for every event; it emits exactly one
\* record, of verbose severity, for a motion event and none for any other.
C7_InputEvent ==
  [][(pc = "inputEvent" /\ PumpStep)
       => /\ inputRet' = Some(0)
          /\ pc' = "check"
          /\ IF arg = AINPUT_EVENT_TYPE_MOTION
               THEN Emitted(1) /\ log'[Len(log')].prio = ANDROID_LOG_VERBOSE
               ELSE log' = log]_vars

\* C7 witness: handleInputEvent has handled a key event and then a motion
\* event.
C7_Witness ==
  /\ pc = "check"
  /\ polled = <<InputEvent(AINPUT_EVENT_TYPE_KEY), InputEvent(AINPUT_EVENT_TYPE_MOTION)>>
  /\ inputRet = Some(0)
  /\ log = <<RecStarted, RecMotion>>

\* C8: the pump starts RUNNING (not returned); the exit record is in the log
\* exactly when the pump has returned, and then once; after the return no
\* pump state changes (no poll, processing, dispatch or record) and the pump
\* never runs again.
C8_TwoStates ==
  /\ pc # "done"
  /\ [](Count(RecExiting) = IF pc = "done" THEN 1 ELSE 0)
  /\ [][pc = "done"
          => UNCHANGED <<pc, onAppCmd, onInputEvent, log, status, source, arg,
                         inputRet, polled, processed>>]_vars

\* C8 witness: the pump has returned on the first drained event, the flag
\* having been raised by the OS; events are still queued behind it.
C8_Witness ==
  /\ pc = "done"
  /\ polled = <<NullEvent>>
  /\ Len(queue) = 2

\* The polled events that came with a source.
WithSource(e) == e.src \in {"cmd", "input"}
PolledWithSource == SelectSeq(polled, WithSource)

\* C9: the events processed are, in order and once each, the events with a
\* source that the polls returned; the only one that can be missing is the
\* event just polled, which is processed before anything else is polled.
C9_DrainOrder ==
  /\ pc = "source" => source = polled[Len(polled)]
  /\ processed = IF pc = "source" /\ WithSource(source)
                   THEN SubSeq(PolledWithSource, 1, Len(PolledWithSource) - 1)
                   ELSE PolledWithSource

\* C9 witness: three events with a source, of both kinds, have been polled
\* and processed.
C9_Witness ==
  /\ Len(processed) = 3
  /\ processed[1].src = "input"
  /\ processed[2].src = "cmd"
  /\ processed[3].src = "input"
  /\ pc = "poll"

\* C10: onAppCmd is written only by the first statement of android_main and
\* onInputEvent only by the second, both before anything is polled; from
\* then on onAppCmd is handleAppCommand and onInputEvent is
\* handleInputEvent, in particular whenever a source is processed.
C10_SlotsFixedAtStartup ==
  /\ [](pc # "regAppCmd" => onAppCmd = HandleAppCommandFn)
  /\ [](pc \notin {"regAppCmd", "regInput"} => onInputEvent = HandleInputEventFn)
  /\ [](pc \in {"regAppCmd", "regInput", "logStart"} => (polled = << >> /\ status = None))
  /\ [][onAppCmd' # onAppCmd => (pc = "regAppCmd" /\ onAppCmd = NullHandler)]_vars
  /\ [][onInputEvent' # onInputEvent => (pc = "regInput" /\ onInputEvent = NullHandler)]_vars

\* C10 witness: a second event is being dispatched to handleInputEvent, with
\* both slots registered.
C10_Witness ==
  /\ pc = "inputEvent"
  /\ Len(polled) = 2
  /\ onAppCmd = HandleAppCommandFn
  /\ onInputEvent = HandleInputEventFn

\* The last poll returned a negative status.
NegativeStatus == status # None /\ status[1] < 0

\* C11: whatever negative status a poll returns, the pump goes to the end of
\* the outer loop's body and from there polls again, with no source
\* processed, no handler entered, no record emitted, the flag not read (the
\* pump goes on even when it is raised) and no return.
C11_NegativeStatusIsNoEvent ==
  /\ [][(pc = "poll" /\ PumpStep /\ NegativeStatus')
          => /\ pc' = "tick"
             /\ UNCHANGED <<log, polled, processed, queue, source, arg, inputRet,
                            destroyRequested, onAppCmd, onInputEvent>>]_vars
  /\ [][(pc = "tick" /\ PumpStep)
          => /\ pc' = "poll"
             /\ UNCHANGED <<log, polled, processed, queue, source, arg, inputRet,
                            destroyRequested, onAppCmd, onInputEvent>>]_vars
  /\ [](pc = "tick" <=> NegativeStatus)
  /\ [](NegativeStatus => status[1] \in NegativeStatuses)

\* C11 witness: a poll has failed with the error status while an event is
\* queued and the flag is raised; the pump is still running.
C11_Witness ==
  /\ pc = "tick"
  /\ status = Some(-4)
  /\ destroyRequested # 0
  /\ queue # << >>
  /\ Len(polled) = 1

\* C12: a drained event whose source is null has no process routine and no
\* handler invoked and no record emitted, and the pump goes to the flag
\* check, which decides as after any event; a process routine is invoked
\* only for the event just drained and only when its source is not null.
C12_NullSource ==
  /\ [][(pc = "source" /\ source = NullEvent /\ PumpStep)
          => /\ pc' = "check"
             /\ UNCHANGED <<log, processed, arg, inputRet, destroyRequested>>]_vars
  /\ [][processed' # processed
          => /\ pc = "source"
             /\ source # NullEvent
             /\ processed' = Append(processed, source)]_vars
  /\ [][(pc = "check" /\ PumpStep)
          => pc' = IF destroyRequested # 0 THEN "done" ELSE "poll"]_vars
  /\ [](pc \in {"appCmd", "inputEvent"} => source # NullEvent)

\* C12 witness: the pump has returned on the check after a null-source
\* event, the second drained, with nothing processed or logged for either.
C12_Witness ==
  /\ pc = "done"
  /\ polled = <<NullEvent, NullEvent>>
  /\ processed = << >>
  /\ log = <<RecStarted, RecExiting>>

\* C13: the end of the outer loop's body is reached only from a poll that
\* returned a negative status; after an event whose check finds the flag
\* unset the pump polls again at once; at the end of the outer loop's body
\* the pump changes nothing and emits nothing before it polls again.
C13_FullDrain ==
  /\ [][(pc' = "tick" /\ pc # "tick") => (pc = "poll" /\ NegativeStatus')]_vars
  /\ [][(pc = "check" /\ destroyRequested = 0 /\ PumpStep) => pc' = "poll"]_vars
  /\ [][(pc = "tick" /\ PumpStep)
          => /\ pc' = "poll"
             /\ UNCHANGED <<onAppCmd, onInputEvent, destroyRequested, log, queue,
                            source, arg, inputRet, polled, processed, delivered>>]_vars

\* C13 witness: three events were drained one after the other and the next
\* poll returned a negative status.
C13_Witness ==
  /\ pc = "tick"
  /\ Len(polled) = 3
  /\ destroyRequested = 0
  /\ queue = << >>

\* s is an initial part of t.
IsPrefix(s, t) == Len(s) <= Len(t) /\ SubSeq(t, 1, Len(s)) = s
\* The events the OS has queued so far, in order: those already polled, then
\* those still pending.
Delivery == polled \o queue

\* C14: polls take the queued events from the front, in delivery order; when
\* the check after an event finds the flag raised the pump returns without
\* touching the queue, and from then on nothing is polled or dispatched,
\* whatever is or becomes queued: the events the pump has drained are the
\* delivery sequence up to and including that event, and those dispatched
\* are the ones among them that came with a source.
C14_QueuedEventsDropped ==
  /\ [][IsPrefix(Delivery, Delivery')]_vars
  /\ [][polled' # polled
          => (queue # << >> /\ polled' = Append(polled, Head(queue))
                /\ queue' = Tail(queue))]_vars
  /\ [][(pc = "check" /\ destroyRequested # 0 /\ PumpStep)
          => (pc' = "done" /\ UNCHANGED <<polled, processed, queue>>)]_vars
  /\ [][pc = "done"
          => (UNCHANGED <<polled, processed, arg>> /\ IsPrefix(queue, queue')
                /\ pc' \notin {"source", "appCmd", "inputEvent"})]_vars
  /\ [](pc = "done"
          => /\ polled # << >>
             /\ source = polled[Len(polled)]
             /\ processed = PolledWithSource
             /\ Len(Delivery) = delivered)

\* C14 witness: the pump has returned on the destroy command, the first
\* event delivered; a window command and a motion event are still queued
\* and nothing was logged for them.
C14_Witness ==
  /\ pc = "done"
  /\ polled = <<CmdEvent(APP_CMD_DESTROY)>>
  /\ queue = <<CmdEvent(APP_CMD_INIT_WINDOW), InputEvent(AINPUT_EVENT_TYPE_MOTION)>>
  /\ log = <<RecStarted, RecExiting>>

\* C15: the pump returns only from the check after a drained event, with
\* the flag non-zero; so while the flag is zero it has not returned, whatever
\* commands, inputs, null sources or negative statuses it has met.
C15_NoSpuriousExit ==
  /\ [][(pc' = "done" /\ pc # "done")
          => /\ pc = "check"
             /\ destroyRequested # 0
             /\ polled # << >>
             /\ source = polled[Len(polled)]
             /\ status = None]_vars
  /\ [](pc = "done" => (destroyRequested # 0 /\ polled # << >>))
  /\ [](destroyRequested = 0 => pc # "done")

\* C15 witness: a command without a case, a key event and a null source have
\* been drained and a poll has returned a negative status; the flag is zero
\* and the pump is running.
C15_Witness ==
  /\ pc = "tick"
  /\ polled = <<CmdEvent(APP_CMD_GAINED_FOCUS), InputEvent(AINPUT_EVENT_TYPE_KEY), NullEvent>>
  /\ destroyRequested = 0
  /\ log = <<RecStarted>>

\* The records the handlers emit.
HandlerRecords == {RecWindowInitialized, RecWindowTerminated, RecMotion}
\* The pump is before its loop.
Starting == pc \in {"regAppCmd", "regInput", "logStart"}

\* C16: the log is empty until the start record is emitted, which happens
\* with both slots registered and nothing polled; from then on the start
\* record is the first record and occurs once; the exit record is in the log
\* exactly when the pump has returned, then once and as the last record;
\* every record between the first and the exit record is a handler's.
C16_LogBracketed ==
  /\ [](Starting <=> log = << >>)
  /\ [](pc = "logStart"
          => (onAppCmd = HandleAppCommandFn /\ onInputEvent = HandleInputEventFn
                /\ polled = << >> /\ status = None))
  /\ [](log # << >> => (log[1] = RecStarted /\ Count(RecStarted) = 1))
  /\ [](Count(RecExiting) = IF pc = "done" THEN 1 ELSE 0)
  /\ [](pc = "done" => (Len(log) >= 2 /\ log[Len(log)] = RecExiting))
  /\ [](\A i \in 2..Len(log) :
          log[i] \in HandlerRecords \/ (i = Len(log) /\ pc = "done" /\ log[i] = RecExiting))
  /\ [][pc = "done" => log' = log]_vars

\* C16 witness: the pump has returned with a handler record of each kind
\* between the start record and the exit record.
C16_Witness ==
  /\ pc = "done"
  /\ log = <<RecStarted, RecMotion, RecWindowTerminated, RecWindowInitialized, RecExiting>>

====
